---- MODULE Spec2Model ----
(***************************************************************************)
(* The five scripts of NtFelix/RMS as one state machine.  A script is a    *)
(* straight line of library calls; every call into the browser-automation  *)
(* library, the auth client or the file system either returns or raises.   *)
(* pc is the source line of the next statement of the running script, and  *)
(* trace records every statement executed in the current run together with *)
(* its outcome.  try/except/finally are modelled by the handler operators, *)
(* which say where an exception raised at a line is caught.                *)
(***************************************************************************)
EXTENDS Naturals, Sequences, FiniteSets

VARIABLES
    script,     \* which script the process runs
    pc,         \* source line of the next statement, 0: control left the script
    pw,         \* the sync_playwright() scope: "none", "entered", "exited"
    status,     \* "running", "returned" (exit 0), "raised" (uncaught exception)
    exc,        \* the exception in flight or bound by the active handler
    trace,      \* statements executed in this run: [line, res]
    shots,      \* screenshot paths written in this run, in order
    out,        \* messages printed in this run, in order
    fs,         \* /tmp/test_readings.csv: [exists, content]
    fsAtStart,  \* fs as the current run found it
    prevWrote,  \* the previous run completed the write of the CSV file
    env,        \* presence of the two environment variables
    runs        \* number of runs started

vars == <<script, pc, pw, status, exc, trace, shots, out, fs, fsAtStart,
          prevWrote, env, runs>>

\* Number of consecutive runs of a script that are explored.
MaxRuns == 2

Scripts == {"import", "billing", "settings", "tenant", "create_user"}

NoExc == [line |-> 0, kind |-> "none"]

NoFile == [exists |-> FALSE, content |-> <<>>]

NL == "\n"

\* csv_content, as the text between and including the newline characters.
CsvContent ==
    <<"id,date,value", NL, "Z-001,2024-01-01,110", NL,
      "Z-002,2024-01-01,50", NL, "Z-003,2024-01-01,10">>

\* A file left at csv_path by something other than a run of the script.
StaleContent == <<"stale", NL>>

\* The lines of a text: the pieces between newline characters.
RECURSIVE SplitLines(_)
SplitLines(text) ==
    IF text = <<>> THEN <<"">>
    ELSE LET rest == SplitLines(Tail(text))
         IN  IF Head(text) = NL
             THEN <<"">> \o rest
             ELSE <<Head(text)>> \o Tail(rest)

\* Variant: the file opened in append mode ("a"), which keeps earlier content.
OpenAppend(old) == old

\* open(csv_path, "w") truncates whatever the file held.
OpenTruncate(old) == <<>>

\* f.write(csv_content) writes at the file position, the end of the content.
WriteAt(old, text) == old \o text

\* ------------------------------------------------------------- trace

Executed == {trace[i].line : i \in DOMAIN trace}
OkLines == {trace[i].line : i \in {j \in DOMAIN trace : trace[j].res = "ok"}}
FailedLines == {trace[i].line : i \in {j \in DOMAIN trace : trace[j].res # "ok"}}
LastOk(t) == t[Len(t)].res = "ok"
Count(seq, x) == Cardinality({i \in DOMAIN seq : seq[i] = x})
Exited == status # "running"

\* The statement after `line` in a straight-line block, `after` past its end.
NextIn(block, line, after) ==
    LET i == CHOOSE j \in DOMAIN block : block[j] = line
    IN  IF i < Len(block) THEN block[i + 1] ELSE after

\* expect(...) raises AssertionError when the condition is not met in time
\* and the library's own Error otherwise; every other call raises Error.
ExpectLines(s) ==
    CASE s = "import"  -> {18, 22, 35}
      [] s = "billing" -> {24, 38, 42}
      [] s = "tenant"  -> {27, 40, 41, 42, 43}
      [] OTHER         -> {}

Kinds(line) ==
    IF line \in ExpectLines(script) THEN {"AssertionError", "Error"} ELSE {"Error"}

\* One statement at `line`: it returns and control moves to `next`, or it
\* raises and control moves to `handler` with the exception in flight.
Step(line, next, handler) ==
    /\ pc = line
    /\ status = "running"
    /\ \/ /\ trace' = Append(trace, [line |-> line, res |-> "ok"])
          /\ pc' = next
          /\ exc' = exc
       \/ \E k \in Kinds(line) :
          /\ trace' = Append(trace, [line |-> line, res |-> k])
          /\ pc' = handler
          /\ exc' = [line |-> line, kind |-> k]

\* A statement that cannot raise (print, a bare raise, os.path.exists).
Plain(line, next) ==
    /\ pc = line
    /\ status = "running"
    /\ trace' = Append(trace, [line |-> line, res |-> "ok"])
    /\ pc' = next

\* Variant: a top-level handler that swallows whatever reaches it.
ExitStatusSwallowed(e) == "returned"

\* Exit code: 0 on fall-through, non-zero on an uncaught exception.
ExitStatus(e) == IF e = NoExc THEN "returned" ELSE "raised"

\* ---------------------------------------------- verify_import_modal.py

ImportTrySteps == <<16, 18, 20, 22, 24, 25, 27, 28, 30, 31, 33, 35>>
ImportTryLines == 16 .. 39

\* Where an exception raised at `line` of run() is caught: the except clause
\* (42) for the try body, the finally clause (47) for the except clause, the
\* end of the with block (5) for everything outside the try statement.
ImportHandler(line) ==
    IF line \in ImportTryLines THEN 42
    ELSE IF line \in 42 .. 44 THEN 47
    ELSE 5

Import_EnterScope ==
    /\ script = "import" /\ pc = 5 /\ pw = "none" /\ status = "running"
    /\ \/ /\ pw' = "entered" /\ pc' = 6 /\ exc' = exc
       \/ /\ pw' = pw /\ pc' = 0 /\ exc' = [line |-> 5, kind |-> "Error"]
    /\ UNCHANGED <<script, status, trace, shots, out, fs, fsAtStart, prevWrote, env, runs>>

Import_Launch ==
    /\ script = "import"
    /\ Step(6, 7, ImportHandler(6))
    /\ UNCHANGED <<script, pw, status, shots, out, fs, fsAtStart, prevWrote, env, runs>>

Import_NewPage ==
    /\ script = "import"
    /\ Step(7, 12, ImportHandler(7))
    /\ UNCHANGED <<script, pw, status, shots, out, fs, fsAtStart, prevWrote, env, runs>>

Import_OpenCsv ==
    /\ script = "import"
    /\ Step(12, 13, ImportHandler(12))
    /\ fs' = IF LastOk(trace')
             THEN [exists |-> TRUE, content |-> OpenTruncate(fs.content)]
             ELSE fs
    /\ UNCHANGED <<script, pw, status, shots, out, fsAtStart, prevWrote, env, runs>>

Import_WriteCsv ==
    /\ script = "import"
    /\ Step(13, 16, ImportHandler(13))
    /\ fs' = IF LastOk(trace')
             THEN [fs EXCEPT !.content = WriteAt(fs.content, CsvContent)]
             ELSE fs
    /\ UNCHANGED <<script, pw, status, shots, out, fsAtStart, prevWrote, env, runs>>

Import_TryStep ==
    /\ script = "import"
    /\ \E i \in DOMAIN ImportTrySteps :
         Step(ImportTrySteps[i], NextIn(ImportTrySteps, ImportTrySteps[i], 38),
              ImportHandler(ImportTrySteps[i]))
    /\ UNCHANGED <<script, pw, status, shots, out, fs, fsAtStart, prevWrote, env, runs>>

Import_Screenshot ==
    /\ script = "import"
    /\ Step(38, 39, ImportHandler(38))
    /\ shots' = IF LastOk(trace') THEN Append(shots, "import_modal_styled.png") ELSE shots
    /\ UNCHANGED <<script, pw, status, out, fs, fsAtStart, prevWrote, env, runs>>

Import_PrintSuccess ==
    /\ script = "import"
    /\ Plain(39, 47)
    /\ out' = Append(out, "Screenshot taken")
    /\ UNCHANGED <<script, pw, status, exc, shots, fs, fsAtStart, prevWrote, env, runs>>

Import_ExceptPrint ==
    /\ script = "import"
    /\ Plain(42, 43)
    /\ out' = Append(out, "Error")
    /\ UNCHANGED <<script, pw, status, exc, shots, fs, fsAtStart, prevWrote, env, runs>>

\* The screenshot of the except clause; if it raises, its exception replaces
\* the caught one and control moves to the finally clause.
Import_ErrorScreenshot ==
    /\ script = "import"
    /\ Step(43, 44, ImportHandler(43))
    /\ shots' = IF LastOk(trace') THEN Append(shots, "error.png") ELSE shots
    /\ UNCHANGED <<script, pw, status, out, fs, fsAtStart, prevWrote, env, runs>>

\* raise e: the caught exception is in flight again.
Import_Reraise ==
    /\ script = "import"
    /\ Plain(44, ImportHandler(44))
    /\ exc' = exc
    /\ UNCHANGED <<script, pw, status, shots, out, fs, fsAtStart, prevWrote, env, runs>>

Import_FinallyClose ==
    /\ script = "import"
    /\ Step(47, 48, ImportHandler(47))
    /\ UNCHANGED <<script, pw, status, shots, out, fs, fsAtStart, prevWrote, env, runs>>

Import_FinallyRemove ==
    /\ script = "import"
    /\ Plain(48, 5)
    /\ fs' = IF fs.exists THEN NoFile ELSE fs
    /\ UNCHANGED <<script, pw, status, exc, shots, out, fsAtStart, prevWrote, env, runs>>

Import_ExitScope ==
    /\ script = "import" /\ pc = 5 /\ pw = "entered" /\ status = "running"
    /\ pw' = "exited"
    /\ pc' = 0
    /\ UNCHANGED <<script, status, exc, trace, shots, out, fs, fsAtStart, prevWrote, env, runs>>

ImportNext ==
    \/ Import_EnterScope \/ Import_Launch \/ Import_NewPage
    \/ Import_OpenCsv \/ Import_WriteCsv \/ Import_TryStep
    \/ Import_Screenshot \/ Import_PrintSuccess
    \/ Import_ExceptPrint \/ Import_ErrorScreenshot \/ Import_Reraise
    \/ Import_FinallyClose \/ Import_FinallyRemove \/ Import_ExitScope

\* --------------------- jules-scratch/verification/verify_billing_address.py

BillingBeforeTry == <<4, 5, 6>>
BillingLoginSteps == <<10, 13, 16, 17, 20>>
\* Variant: the billing-address assertion of line 42 left out.
BillingSettingsStepsNoAssert == <<31, 34, 38>>
BillingSettingsSteps == <<31, 34, 38, 42>>
BillingTryLines == 10 .. 46

\* Variant: the try statement without its finally clause.
BillingHandlerNoFinally(line, kind) ==
    IF line = 24 /\ kind = "AssertionError" THEN 26 ELSE 51

\* Variant: the URL check without its inner try/except.
BillingHandlerNoLoginCheck(line, kind) ==
    IF line \in BillingTryLines THEN 49 ELSE 51

\* Where an exception of `kind` raised at `line` of run_verification() is
\* caught: the inner except clause (26) for an AssertionError of the URL
\* check, the finally clause (49) for the rest of the try statement, the end
\* of the with block (51) for everything outside it.
BillingHandler(line, kind) ==
    IF line = 24 /\ kind = "AssertionError" THEN 26
    ELSE IF line \in BillingTryLines THEN 49
    ELSE 51

Billing_EnterScope ==
    /\ script = "billing" /\ pc = 51 /\ pw = "none" /\ status = "running"
    /\ \/ /\ pw' = "entered" /\ pc' = 4 /\ exc' = exc
       \/ /\ pw' = pw /\ pc' = 0 /\ exc' = [line |-> 51, kind |-> "Error"]
    /\ UNCHANGED <<script, status, trace, shots, out, fs, fsAtStart, prevWrote, env, runs>>

Billing_BeforeTry ==
    /\ script = "billing"
    /\ \E i \in DOMAIN BillingBeforeTry :
         Step(BillingBeforeTry[i], NextIn(BillingBeforeTry, BillingBeforeTry[i], 10),
              BillingHandler(BillingBeforeTry[i], "Error"))
    /\ UNCHANGED <<script, pw, status, shots, out, fs, fsAtStart, prevWrote, env, runs>>

Billing_LoginStep ==
    /\ script = "billing"
    /\ \E i \in DOMAIN BillingLoginSteps :
         Step(BillingLoginSteps[i], NextIn(BillingLoginSteps, BillingLoginSteps[i], 24),
              BillingHandler(BillingLoginSteps[i], "Error"))
    /\ UNCHANGED <<script, pw, status, shots, out, fs, fsAtStart, prevWrote, env, runs>>

\* expect(page).to_have_url(...) inside the inner try statement.
Billing_LoginCheck ==
    /\ script = "billing" /\ pc = 24 /\ status = "running"
    /\ \/ /\ trace' = Append(trace, [line |-> 24, res |-> "ok"])
          /\ pc' = 31
          /\ exc' = exc
       \/ \E k \in Kinds(24) :
          /\ trace' = Append(trace, [line |-> 24, res |-> k])
          /\ pc' = BillingHandler(24, k)
          /\ exc' = [line |-> 24, kind |-> k]
    /\ UNCHANGED <<script, pw, status, shots, out, fs, fsAtStart, prevWrote, env, runs>>

Billing_FailureScreenshot ==
    /\ script = "billing"
    /\ Step(26, 27, BillingHandler(26, "Error"))
    /\ shots' = IF LastOk(trace') THEN Append(shots, "login_failure.png") ELSE shots
    /\ UNCHANGED <<script, pw, status, out, fs, fsAtStart, prevWrote, env, runs>>

Billing_PrintFailure ==
    /\ script = "billing"
    /\ Plain(27, 28)
    /\ out' = Append(out, "Login failed")
    /\ UNCHANGED <<script, pw, status, exc, shots, fs, fsAtStart, prevWrote, env, runs>>

\* raise: the AssertionError being handled is in flight again.
Billing_Reraise ==
    /\ script = "billing"
    /\ Plain(28, BillingHandler(28, exc.kind))
    /\ exc' = exc
    /\ UNCHANGED <<script, pw, status, shots, out, fs, fsAtStart, prevWrote, env, runs>>

Billing_SettingsStep ==
    /\ script = "billing"
    /\ \E i \in DOMAIN BillingSettingsSteps :
         Step(BillingSettingsSteps[i],
              NextIn(BillingSettingsSteps, BillingSettingsSteps[i], 45),
              BillingHandler(BillingSettingsSteps[i], "Error"))
    /\ UNCHANGED <<script, pw, status, shots, out, fs, fsAtStart, prevWrote, env, runs>>

Billing_Screenshot ==
    /\ script = "billing"
    /\ Step(45, 46, BillingHandler(45, "Error"))
    /\ shots' = IF LastOk(trace')
                THEN Append(shots, "billing_address_verification.png") ELSE shots
    /\ UNCHANGED <<script, pw, status, out, fs, fsAtStart, prevWrote, env, runs>>

Billing_PrintSuccess ==
    /\ script = "billing"
    /\ Plain(46, 49)
    /\ out' = Append(out, "Verification successful")
    /\ UNCHANGED <<script, pw, status, exc, shots, fs, fsAtStart, prevWrote, env, runs>>

Billing_FinallyClose ==
    /\ script = "billing"
    /\ Step(49, 51, BillingHandler(49, "Error"))
    /\ UNCHANGED <<script, pw, status, shots, out, fs, fsAtStart, prevWrote, env, runs>>

Billing_ExitScope ==
    /\ script = "billing" /\ pc = 51 /\ pw = "entered" /\ status = "running"
    /\ pw' = "exited"
    /\ pc' = 0
    /\ UNCHANGED <<script, status, exc, trace, shots, out, fs, fsAtStart, prevWrote, env, runs>>

BillingNext ==
    \/ Billing_EnterScope \/ Billing_BeforeTry \/ Billing_LoginStep
    \/ Billing_LoginCheck \/ Billing_FailureScreenshot \/ Billing_PrintFailure
    \/ Billing_Reraise \/ Billing_SettingsStep \/ Billing_Screenshot
    \/ Billing_PrintSuccess \/ Billing_FinallyClose \/ Billing_ExitScope

\* --------------------- jules-scratch/verification/verify_settings_modal.py

SettingsSteps == <<4, 5, 6, 7, 8, 9, 10, 11, 12, 13>>

\* run() has no try statement: every exception leaves it and reaches the end
\* of the with block (17).
SettingsHandler(line) == 17

Settings_EnterScope ==
    /\ script = "settings" /\ pc = 17 /\ pw = "none" /\ status = "running"
    /\ \/ /\ pw' = "entered" /\ pc' = 4 /\ exc' = exc
       \/ /\ pw' = pw /\ pc' = 0 /\ exc' = [line |-> 17, kind |-> "Error"]
    /\ UNCHANGED <<script, status, trace, shots, out, fs, fsAtStart, prevWrote, env, runs>>

Settings_Step ==
    /\ script = "settings"
    /\ \E i \in DOMAIN SettingsSteps :
         Step(SettingsSteps[i], NextIn(SettingsSteps, SettingsSteps[i], 14),
              SettingsHandler(SettingsSteps[i]))
    /\ UNCHANGED <<script, pw, status, shots, out, fs, fsAtStart, prevWrote, env, runs>>

Settings_Screenshot ==
    /\ script = "settings"
    /\ Step(14, 15, SettingsHandler(14))
    /\ shots' = IF LastOk(trace') THEN Append(shots, "verification.png") ELSE shots
    /\ UNCHANGED <<script, pw, status, out, fs, fsAtStart, prevWrote, env, runs>>

Settings_Close ==
    /\ script = "settings"
    /\ Step(15, 17, SettingsHandler(15))
    /\ UNCHANGED <<script, pw, status, shots, out, fs, fsAtStart, prevWrote, env, runs>>

Settings_ExitScope ==
    /\ script = "settings" /\ pc = 17 /\ pw = "entered" /\ status = "running"
    /\ pw' = "exited"
    /\ pc' = 0
    /\ UNCHANGED <<script, status, exc, trace, shots, out, fs, fsAtStart, prevWrote, env, runs>>

SettingsNext ==
    \/ Settings_EnterScope \/ Settings_Step \/ Settings_Screenshot
    \/ Settings_Close \/ Settings_ExitScope

\* --------------- jules-scratch/verification/verify_tenant_page_redesign.py

TenantRegisterSteps == <<17, 20, 21, 22, 23, 27>>
TenantPageSteps == <<35, 40, 41, 42, 43>>
TenantTryLines == 17 .. 27

\* Variant: the registration block without its try/except.
TenantHandlerNoFallback(line) == 0

\* Where an exception raised at `line` of the test function is caught: the
\* except clause (29) for the registration block, nowhere (0) otherwise.
TenantHandler(line) == IF line \in TenantTryLines THEN 29 ELSE 0

Tenant_Goto ==
    /\ script = "tenant"
    /\ Step(10, 17, TenantHandler(10))
    /\ UNCHANGED <<script, pw, status, shots, out, fs, fsAtStart, prevWrote, env, runs>>

Tenant_RegisterStep ==
    /\ script = "tenant"
    /\ \E i \in DOMAIN TenantRegisterSteps :
         Step(TenantRegisterSteps[i],
              NextIn(TenantRegisterSteps, TenantRegisterSteps[i], 35),
              TenantHandler(TenantRegisterSteps[i]))
    /\ UNCHANGED <<script, pw, status, shots, out, fs, fsAtStart, prevWrote, env, runs>>

\* except Exception: pass -- the exception is dropped and the function goes on.
Tenant_ExceptPass ==
    /\ script = "tenant"
    /\ Plain(29, 35)
    /\ exc' = NoExc
    /\ UNCHANGED <<script, pw, status, shots, out, fs, fsAtStart, prevWrote, env, runs>>

Tenant_PageStep ==
    /\ script = "tenant"
    /\ \E i \in DOMAIN TenantPageSteps :
         Step(TenantPageSteps[i], NextIn(TenantPageSteps, TenantPageSteps[i], 46),
              TenantHandler(TenantPageSteps[i]))
    /\ UNCHANGED <<script, pw, status, shots, out, fs, fsAtStart, prevWrote, env, runs>>

Tenant_Screenshot ==
    /\ script = "tenant"
    /\ Step(46, 0, TenantHandler(46))
    /\ shots' = IF LastOk(trace') THEN Append(shots, "verification.png") ELSE shots
    /\ UNCHANGED <<script, pw, status, out, fs, fsAtStart, prevWrote, env, runs>>

TenantNext ==
    \/ Tenant_Goto \/ Tenant_RegisterStep \/ Tenant_ExceptPass
    \/ Tenant_PageStep \/ Tenant_Screenshot

\* ------------------------------------------- jules-scratch/create_user.py

\* Variant: sign_up() without its try/except.
CreateUserHandlerNoTry(line) == 0

\* Where an exception raised at `line` is caught: the except clause (15) for
\* the try body of sign_up(), nowhere (0) at module level.
CreateUserHandler(line) == IF line \in 12 .. 13 THEN 15 ELSE 0

\* os.environ.get returns None for an absent variable and never raises.
CreateUser_ReadEnv ==
    /\ script = "create_user"
    /\ \/ Plain(4, 5)
       \/ Plain(5, 6)
    /\ UNCHANGED <<script, pw, status, exc, shots, out, fs, fsAtStart, prevWrote, env, runs>>

\* create_client(url, key) at module level; it rejects a missing url or key.
CreateUser_CreateClient ==
    /\ script = "create_user"
    /\ Step(6, 12, CreateUserHandler(6))
    /\ (~env.url \/ ~env.key) => ~LastOk(trace')
    /\ UNCHANGED <<script, pw, status, shots, out, fs, fsAtStart, prevWrote, env, runs>>

CreateUser_SignUp ==
    /\ script = "create_user"
    /\ Step(12, 13, CreateUserHandler(12))
    /\ UNCHANGED <<script, pw, status, shots, out, fs, fsAtStart, prevWrote, env, runs>>

CreateUser_PrintResponse ==
    /\ script = "create_user"
    /\ Plain(13, 0)
    /\ out' = Append(out, "response")
    /\ UNCHANGED <<script, pw, status, exc, shots, fs, fsAtStart, prevWrote, env, runs>>

\* except Exception as e: print(e) -- the exception is handled, not re-raised.
CreateUser_PrintException ==
    /\ script = "create_user"
    /\ Plain(15, 0)
    /\ out' = Append(out, "exception")
    /\ exc' = NoExc
    /\ UNCHANGED <<script, pw, status, shots, fs, fsAtStart, prevWrote, env, runs>>

CreateUserNext ==
    \/ CreateUser_ReadEnv \/ CreateUser_CreateClient \/ CreateUser_SignUp
    \/ CreateUser_PrintResponse \/ CreateUser_PrintException

\* ------------------------------------------------------------ process

StartLine(s) ==
    CASE s = "import"      -> 5
      [] s = "billing"     -> 51
      [] s = "settings"    -> 17
      [] s = "tenant"      -> 10
      [] s = "create_user" -> 4

\* Control has left the script: the process ends, with the exit code.
ProcessExit ==
    /\ pc = 0 /\ status = "running"
    /\ status' = ExitStatus(exc)
    /\ UNCHANGED <<script, pc, pw, exc, trace, shots, out, fs, fsAtStart, prevWrote, env, runs>>

\* The script is invoked again; only the file system carries over.
Rerun ==
    /\ status # "running"
    /\ runs < MaxRuns
    /\ runs' = runs + 1
    /\ pc' = StartLine(script)
    /\ pw' = "none"
    /\ status' = "running"
    /\ exc' = NoExc
    /\ trace' = <<>>
    /\ shots' = <<>>
    /\ out' = <<>>
    /\ fsAtStart' = fs
    /\ prevWrote' = (script = "import" /\ 13 \in OkLines)
    /\ UNCHANGED <<script, fs, env>>

Init ==
    /\ script \in Scripts
    /\ pc = StartLine(script)
    /\ pw = "none"
    /\ status = "running"
    /\ exc = NoExc
    /\ trace = <<>>
    /\ shots = <<>>
    /\ out = <<>>
    /\ fs \in IF script = "import"
              THEN {NoFile, [exists |-> TRUE, content |-> StaleContent]}
              ELSE {NoFile}
    /\ fsAtStart = fs
    /\ prevWrote = FALSE
    /\ env \in IF script = "create_user"
               THEN [url : BOOLEAN, key : BOOLEAN]
               ELSE {[url |-> TRUE, key |-> TRUE]}
    /\ runs = 1

Next ==
    \/ ImportNext
    \/ BillingNext
    \/ SettingsNext
    \/ TenantNext
    \/ CreateUserNext
    \/ ProcessExit
    \/ Rerun

Spec == Init /\ [][Next]_vars

\* ------------------------------------------------------------- claims

BrowserScripts == {"import", "billing", "settings"}
LoginScripts == {"billing", "settings", "tenant"}

\* The line of chromium.launch(...) and of browser.close() in a browser script.
LaunchLine(s) == CASE s = "import" -> 6 [] s = "billing" -> 4 [] s = "settings" -> 4
CloseLine(s) == CASE s = "import" -> 47 [] s = "billing" -> 49 [] s = "settings" -> 15

\* The statement that checks the page reached after login or registration.
LoginCheckLine(s) == CASE s = "billing" -> 24 [] s = "settings" -> 11 [] s = "tenant" -> 27

\* The statements that follow the login check on the success path.
AfterLogin(s) ==
    CASE s = "billing"  -> {31, 34, 38, 42, 45, 46, 49}
      [] s = "settings" -> {12, 13, 14, 15}
      [] s = "tenant"   -> {35, 40, 41, 42, 43, 46}

\* The statements of except and finally clauses.
HandlerLines(s) ==
    CASE s = "import"  -> {42, 43, 44, 47, 48}
      [] s = "billing" -> {26, 27, 28, 49}
      [] OTHER         -> {}

\* The final screenshot of a script and the calls written before it.
SuccessShot(s) ==
    CASE s = "import"   -> "import_modal_styled.png"
      [] s = "billing"  -> "billing_address_verification.png"
      [] OTHER          -> "verification.png"

StepsBefore(s) ==
    CASE s = "import"   -> {6, 7, 12, 13, 16, 18, 20, 22, 24, 25, 27, 28, 30, 31, 33, 35}
      [] s = "billing"  -> {4, 5, 6, 10, 13, 16, 17, 20, 24, 31, 34, 38, 42}
      [] s = "settings" -> 4 .. 13
      [] s = "tenant"   -> {10, 17, 20, 21, 22, 23, 27, 35, 40, 41, 42, 43}
      [] OTHER          -> {}

ExpectedLines ==
    <<"id,date,value", "Z-001,2024-01-01,110", "Z-002,2024-01-01,50",
      "Z-003,2024-01-01,10">>

Launched == script \in BrowserScripts /\ LaunchLine(script) \in OkLines
CloseCalls == Cardinality({i \in DOMAIN trace : trace[i].line = CloseLine(script)})

\* The statements executed after the first one that raised.
AfterFirstFailure ==
    LET bad == {i \in DOMAIN trace : trace[i].res # "ok"}
        first == CHOOSE i \in bad : \A j \in bad : i <= j
    IN  {trace[j].line : j \in {k \in DOMAIN trace : k > first}}

NoRepeat == \A i, j \in DOMAIN trace : i < j => trace[i].line # trace[j].line
Increasing == \A i \in DOMAIN trace : i < Len(trace) => trace[i].line < trace[i + 1].line

\* C1: in the CSV-import script, once the temporary file has been written it
\* no longer exists when run() has returned or raised, whichever step failed.
C1_TempFileDeleted ==
    (script = "import" /\ Exited /\ 13 \in OkLines) => ~fs.exists

\* C2 as stated: in every browser script, once the browser has been launched,
\* browser.close() is called on every exit path.
C2_CloseOnEveryExit ==
    (Exited /\ Launched) => CloseCalls >= 1

\* The point from which browser.close() is certain to be called: the entry of
\* the try statement (import, billing), the last statement before it (settings).
CloseGuarded ==
    CASE script = "import"   -> 13 \in OkLines
      [] script = "billing"  -> 6 \in OkLines
      [] script = "settings" -> 14 \in OkLines

\* C2 amended: once the browser has been launched, the sync_playwright() scope
\* is left on every exit path; browser.close() is called exactly once when the
\* try statement of run/run_verification was entered (in verify_settings_modal
\* when every earlier statement returned), and not at all otherwise.
C2_CloseWhereGuarded ==
    (Exited /\ Launched) =>
        /\ pw = "exited"
        /\ CloseCalls = IF CloseGuarded THEN 1 ELSE 0

C2_Witness ==
    /\ script = "billing" /\ Exited /\ Launched
    /\ FailedLines \cap BillingTryLines # {}
    /\ CloseCalls = 1

\* The application did not show the expected page within the timeout: the
\* AssertionError of expect(page).to_have_url, the error of
\* wait_for_selector, the failure of the Dashboard heading assertion.
LoginCheckTimedOut ==
    CASE script = "billing" ->
           [line |-> 24, res |-> "AssertionError"] \in {trace[i] : i \in DOMAIN trace}
      [] script \in {"settings", "tenant"} -> LoginCheckLine(script) \in FailedLines
      [] OTHER -> FALSE

\* C3 as stated: in each login-flow script a failed login check writes exactly
\* one screenshot, the script raises, and no later step runs.
C3_LoginFailureRaises ==
    (script \in LoginScripts /\ Exited /\ LoginCheckTimedOut) =>
        /\ status = "raised"
        /\ Len(shots) = 1
        /\ Executed \cap AfterLogin(script) \subseteq HandlerLines(script)

\* C3 amended: verify_billing_address, on an AssertionError of the URL check,
\* attempts the login_failure.png screenshot, writes it and nothing else when
\* that call returns, raises, and runs none of the settings steps;
\* verify_settings_modal raises without any screenshot; the tenant test drops
\* the failure, goes on to the tenant page and passes exactly when the steps
\* from there on succeed.
C3_LoginFailurePath ==
    (Exited /\ script \in LoginScripts /\ LoginCheckTimedOut) =>
        CASE script = "billing" ->
               /\ 26 \in Executed
               /\ status = "raised"
               /\ shots = IF 26 \in OkLines THEN <<"login_failure.png">> ELSE <<>>
               /\ Executed \cap (31 .. 46) = {}
          [] script = "settings" ->
               /\ status = "raised"
               /\ shots = <<>>
               /\ Executed \cap (12 .. 15) = {}
          [] script = "tenant" ->
               /\ {29, 35} \subseteq Executed
               /\ status = "returned" <=> AfterLogin("tenant") \subseteq OkLines
               /\ shots = IF 46 \in OkLines THEN <<"verification.png">> ELSE <<>>

C3_Witness ==
    /\ script = "billing" /\ Exited /\ status = "raised"
    /\ LoginCheckTimedOut
    /\ shots = <<"login_failure.png">>

\* C4 as stated: when the login check succeeds the script completes without
\* raising, for every outcome of the steps that follow.
C4_LoginOkNeverRaises ==
    (script \in LoginScripts /\ Exited /\ LoginCheckLine(script) \in OkLines) =>
        status = "returned"

\* C4 amended: when the login check succeeds, the script completes without
\* raising exactly when every step that follows it (the final screenshot and
\* browser.close() included) also succeeds.
C4_LoginOkReturnsIffRestOk ==
    (script \in LoginScripts /\ Exited /\ LoginCheckLine(script) \in OkLines) =>
        (status = "returned" <=> AfterLogin(script) \subseteq OkLines)

C4_Witness ==
    /\ script \in LoginScripts /\ Exited
    /\ LoginCheckLine(script) \in OkLines
    /\ status = "returned"

\* C5 as stated: in every script a failing step ends the script with a
\* non-zero exit; no failure is swallowed, no later step runs, nothing is
\* retried.
C5_SingleFailurePath ==
    /\ NoRepeat
    /\ (Exited /\ FailedLines # {}) =>
          /\ status = "raised"
          /\ AfterFirstFailure \subseteq HandlerLines(script)

\* C5 amended: no statement runs twice; in the three browser scripts a failing
\* step ends the script with a non-zero exit after only except/finally
\* statements; the tenant test drops a failure of its registration block and
\* goes on to the tenant page, raising only for a failure outside that block;
\* create_user prints a sign_up failure and exits with 0, and raises only
\* when create_client fails.
C5_FailurePaths ==
    /\ NoRepeat
    /\ (Exited /\ FailedLines # {}) =>
          CASE script \in BrowserScripts ->
                 /\ status = "raised"
                 /\ AfterFirstFailure \subseteq HandlerLines(script)
            [] script = "tenant" ->
                 /\ status = "raised" <=> ~(FailedLines \subseteq TenantTryLines)
                 /\ FailedLines \cap TenantTryLines # {} => {29, 35} \subseteq Executed
            [] script = "create_user" ->
                 /\ status = "raised" <=> 6 \in FailedLines
                 /\ 12 \in FailedLines => out = <<"exception">>

C5_Witness ==
    /\ script = "tenant" /\ Exited /\ status = "returned"
    /\ FailedLines # {}

\* C6 as stated: running create_user.py never ends in an uncaught exception,
\* whether create_client or auth.sign_up fails.
C6_NeverUncaught ==
    (script = "create_user" /\ Exited) => status = "returned"

\* C6 amended: a sign_up that returns has its response printed, a sign_up that
\* raises has the exception printed, and both exit cleanly; a create_client
\* that raises (as it does for an absent environment variable) is uncaught,
\* prints nothing and ends the process with a non-zero exit.
C6_SignUpCaughtOnly ==
    (script = "create_user" /\ Exited) =>
        /\ status = "raised" <=> 6 \in FailedLines
        /\ 12 \in OkLines => out = <<"response">>
        /\ 12 \in FailedLines => out = <<"exception">>
        /\ 6 \in FailedLines => out = <<>>
        /\ (~env.url \/ ~env.key) => status = "raised"

C6_Witness ==
    /\ script = "create_user" /\ Exited
    /\ 12 \in FailedLines
    /\ status = "returned" /\ out = <<"exception">>

\* C7: re-running the CSV-import script is idempotent on the file system: a
\* run that follows a run which wrote the temporary file finds the file absent.
C7_RerunStartsClean ==
    (script = "import" /\ runs >= 2 /\ prevWrote) => ~fsAtStart.exists

\* C8: from the completed write until the removal in the finally clause, and
\* so when set_input_files is called, the temporary file exists and holds
\* exactly the header line and the three data rows, in order.
C8_UploadedCsv ==
    (script = "import" /\ 13 \in OkLines /\ 48 \notin Executed) =>
        /\ fs.exists
        /\ SplitLines(fs.content) = ExpectedLines

C8_Witness ==
    /\ script = "import" /\ pc = 20
    /\ fsAtStart.exists /\ fsAtStart.content = StaleContent

\* C9: in the CSV-import script, when a step of the try block fails, error.png
\* is written exactly once and the exception leaving run() is that step's;
\* when none fails, only import_modal_styled.png is written.
C9_ErrorScreenshotOnce ==
    (script = "import" /\ Exited /\ 13 \in OkLines) =>
        IF FailedLines \cap ImportTryLines # {}
        THEN /\ Count(shots, "error.png") = 1
             /\ exc.line \in FailedLines \cap ImportTryLines
        ELSE shots = <<"import_modal_styled.png">>

\* C10 as stated: steps run in the written order and the final screenshot is
\* written only after every preceding step of the script has succeeded.
C10_ShotAfterAllSteps ==
    /\ Increasing
    /\ SuccessShot(script) \in {shots[i] : i \in DOMAIN shots} =>
          StepsBefore(script) \subseteq OkLines

\* C10 amended: steps run in the written order and the final screenshot is
\* written at most once, only after every preceding step has succeeded,
\* except that the tenant test writes it whether or not the steps of its
\* registration block succeeded.
C10_ShotAfterRequiredSteps ==
    /\ Increasing
    /\ Count(shots, SuccessShot(script)) <= 1
    /\ SuccessShot(script) \in {shots[i] : i \in DOMAIN shots} =>
          (StepsBefore(script)
             \ (IF script = "tenant" THEN TenantTryLines ELSE {})) \subseteq OkLines

C10_Witness ==
    /\ script = "tenant"
    /\ "verification.png" \in {shots[i] : i \in DOMAIN shots}
    /\ FailedLines \cap TenantTryLines # {}

====
